---- MODULE Spec2Model ----
(***************************************************************************)
(* Model of rust/cymbal/src/types/mod.rs: the typed view of an error       *)
(* event's properties (ErrProps, Exception, Stacktrace) with its serde     *)
(* decode/encode contract, and Exception::include_in_fingerprint, which    *)
(* selects what an exception feeds into the Sha512 grouping hash.          *)
(*                                                                         *)
(* Strings are sequences of bytes.  A Sha512 context is modelled by the    *)
(* sequence of update calls made on it; Stream(h) is the concatenation of  *)
(* their bytes, the only thing the digest depends on.                      *)
(***************************************************************************)
EXTENDS Naturals, Sequences, FiniteSets, TLC

VARIABLES excs, n, h, owner, bag, props, err, out, dpc

vars == <<excs, n, h, owner, bag, props, err, out, dpc>>

fpVars == <<excs, n, h, owner>>

decVars == <<bag, props, err, out, dpc>>

(* ------------------------------ bounds --------------------------------- *)

\* byte values are 1..MaxByte
MaxByte == 2

\* longest exception type / message
MaxStrLen == 1

\* most frames in one stacktrace
MaxFrames == 2

\* most exceptions in one exception list that is fingerprinted
MaxExc == 2

\* most elements in a `$exception_list` array that is decoded
MaxElems == 2

(* ------------------------------ values --------------------------------- *)

Bytes == 1..MaxByte

SeqsUpTo(S, k) == UNION {[1..m -> S] : m \in 0..k}

Strs == SeqsUpTo(Bytes, MaxStrLen)

\* crate::frames::Frame: the two flags the engine reads, and the bytes the
\* frame feeds to the hash
Frame == [resolved : BOOLEAN, in_app : BOOLEAN, content : {<<b>> : b \in Bytes}]

\* crate::frames::RawFrame: not yet symbolicated
RawFrame == [resolved : {FALSE}, in_app : BOOLEAN, content : {<<b>> : b \in Bytes}]

NoStack == [kind |-> "none", frames |-> <<>>]

Raw(fs) == [kind |-> "raw", frames |-> fs]

Resolved(fs) == [kind |-> "resolved", frames |-> fs]

Stacktrace == {Raw(fs) : fs \in SeqsUpTo(RawFrame, MaxFrames)}
              \cup {Resolved(fs) : fs \in SeqsUpTo(Frame, MaxFrames)}

OptStacktrace == {NoStack} \cup Stacktrace

Exception == [exception_type : Strs, exception_message : Strs, stack : OptStacktrace]

(* --------------------------- the hash context --------------------------- *)

RECURSIVE Stream(_)
Stream(hh) == IF hh = <<>> THEN <<>> ELSE hh[1].bytes \o Stream(Tail(hh))

Update(hh, tag, idx, bytes) == Append(hh, [tag |-> tag, idx |-> idx, bytes |-> bytes])

Frame_include_in_fingerprint(f, j, hh) == Update(hh, "frame", j, f.content)

(* ------------------- Exception::include_in_fingerprint ------------------ *)

has_no_resolved_in_app_only(frames) ==
    ~ \E j \in 1..Len(frames) : frames[j].in_app /\ frames[j].resolved

has_no_resolved(frames) == ~ \E j \in 1..Len(frames) : frames[j].resolved

has_no_in_app(frames) == ~ \E j \in 1..Len(frames) : frames[j].in_app

\* the loop walking the frames last to first
RECURSIVE for_frame_reversed(_, _, _, _)
for_frame_reversed(frames, j, hnr, hh) ==
    IF j > Len(frames) THEN hh
    ELSE LET k == Len(frames) + 1 - j
         IN for_frame_reversed(frames, j + 1, hnr,
                IF (hnr \/ frames[k].resolved) /\ frames[k].in_app
                THEN Frame_include_in_fingerprint(frames[k], k, hh)
                ELSE hh)

\* the loop stopping after the first frame it contributes
RECURSIVE for_frame_first_only(_, _, _, _)
for_frame_first_only(frames, j, hnr, hh) ==
    IF j > Len(frames) THEN hh
    ELSE IF (hnr \/ frames[j].resolved) /\ frames[j].in_app
         THEN Frame_include_in_fingerprint(frames[j], j, hh)
         ELSE for_frame_first_only(frames, j + 1, hnr, hh)

\* the loop testing only frame.in_app
RECURSIVE for_frame_ignoring_resolved(_, _, _, _)
for_frame_ignoring_resolved(frames, j, hnr, hh) ==
    IF j > Len(frames) THEN hh
    ELSE for_frame_ignoring_resolved(frames, j + 1, hnr,
             IF frames[j].in_app
             THEN Frame_include_in_fingerprint(frames[j], j, hh)
             ELSE hh)

\* the loop `for frame in frames`, from frame j on
RECURSIVE for_frame(_, _, _, _)
for_frame(frames, j, hnr, hh) ==
    IF j > Len(frames) THEN hh
    ELSE for_frame(frames, j + 1, hnr,
             IF (hnr \/ frames[j].resolved) /\ frames[j].in_app
             THEN Frame_include_in_fingerprint(frames[j], j, hh)
             ELSE hh)

\* the `if has_no_in_app` branch taking the last frame instead of the first
no_in_app_fallback_last(frames, hh) ==
    IF frames # <<>>
    THEN Frame_include_in_fingerprint(frames[Len(frames)], Len(frames), hh)
    ELSE hh

\* the body of `if has_no_in_app { ... return; }`
no_in_app_fallback(frames, hh) ==
    IF frames # <<>> THEN Frame_include_in_fingerprint(frames[1], 1, hh) ELSE hh

\* the let-else matching any stack that is present, Raw included
is_resolved_any_variant(stack) == stack.kind # "none"

\* `let Some(Stacktrace::Resolved { frames }) = &self.stack else { return }`
is_resolved(stack) == stack.kind = "resolved"

\* the message update left out
update_type_only(e, hh) == Update(hh, "type", 0, e.exception_type)

\* the two updates that open include_in_fingerprint
update_type_message(e, hh) ==
    Update(Update(hh, "type", 0, e.exception_type), "message", 0, e.exception_message)

include_in_fingerprint(e, hh) ==
    LET h2 == update_type_message(e, hh)
        frames == e.stack.frames
    IN  IF ~ is_resolved(e.stack) THEN h2
        ELSE IF has_no_in_app(frames) THEN no_in_app_fallback(frames, h2)
        ELSE for_frame(frames, 1, has_no_resolved(frames), h2)

\* the whole fingerprint of an exception list: one context, fed in list order
RECURSIVE Fingerprint(_, _)
Fingerprint(list, hh) ==
    IF list = <<>> THEN hh
    ELSE Fingerprint(Tail(list), include_in_fingerprint(Head(list), hh))

(* --------------------------- JSON property bags ------------------------- *)

JStr(s) == [t |-> "str", v |-> s]

JNum == [t |-> "num", v |-> <<>>]

JNull == [t |-> "null", v |-> <<>>]

JArr(a) == [t |-> "arr", v |-> a]

None == [some |-> FALSE, v |-> <<>>]

Some(x) == [some |-> TRUE, v |-> x]

\* the keys ErrProps names with #[serde(rename = ...)]
ModeledKeys == {"$exception_list", "$exception_type", "$exception_message",
                "$exception_stack_trace_raw", "$exception_level"}

\* JSON strings that occur as values
JStrs == {JStr(<<>>), JStr(<<1>>)}

\* an element of the `$exception_list` array: a JSON object
Elem == UNION {[K -> JStrs \cup {JNum}] : K \in SUBSET {"type", "value"}}
        \cup {[k \in {"typo", "value"} |-> JStr(<<1>>)]}

\* the property bags decoded: a JSON object with distinct names
ListVals == {JNull, JNum} \cup {JArr(a) : a \in SeqsUpTo(Elem, MaxElems)}

BagFrom(l, t, v, o) ==
    [k \in {x \in {"$exception_list"} : l # None}
           \cup {x \in {"$exception_type"} : t # None}
           \cup {x \in {"$exception_level"} : v # None}
           \cup {x \in {"$lib"} : o # None}
       |-> CASE k = "$exception_list" -> l.v
             [] k = "$exception_type" -> t.v
             [] k = "$exception_level" -> v.v
             [] OTHER -> o.v]

Bags == {BagFrom(l, t, v, o) :
            l \in {None} \cup {Some(x) : x \in ListVals},
            t \in {None, Some(JStr(<<1>>))},
            v \in {None, Some(JStr(<<1>>)), Some(JNum)},
            o \in {None, Some(JStr(<<1>>)), Some(JNum)}}

(* ------------------------ serde: Deserialize ---------------------------- *)

Ok(x) == [ok |-> TRUE, val |-> x, err |-> "none"]

Err(m) == [ok |-> FALSE, val |-> <<>>, err |-> m]

\* Exception with the required fields defaulted when missing
DecodeExceptionLenient(el) ==
    IF \E k \in {"type", "value"} \cap DOMAIN el : el[k].t # "str"
    THEN Err("invalid type")
    ELSE Ok([exception_type |-> IF "type" \in DOMAIN el THEN el["type"].v ELSE <<>>,
             exception_message |-> IF "value" \in DOMAIN el THEN el["value"].v ELSE <<>>,
             stack |-> NoStack])

\* #[derive(Deserialize)] struct Exception: `type` and `value` are String,
\* unknown keys are ignored; the optional fields are absent in these inputs
DecodeException(el) ==
    IF \E k \in {"type", "value"} \cap DOMAIN el : el[k].t # "str"
    THEN Err("invalid type")
    ELSE IF "type" \notin DOMAIN el THEN Err("missing field type")
    ELSE IF "value" \notin DOMAIN el THEN Err("missing field value")
    ELSE Ok([exception_type |-> el["type"].v,
             exception_message |-> el["value"].v,
             stack |-> NoStack])

\* Vec<Exception> keeping the elements that decode
RECURSIVE DecodeVecSkipping(_)
DecodeVecSkipping(a) ==
    IF a = <<>> THEN Ok(<<>>)
    ELSE LET e == DecodeException(Head(a))
             r == DecodeVecSkipping(Tail(a))
         IN  IF e.ok THEN Ok(<<e.val>> \o r.val) ELSE r

\* Vec<Exception>: the first element that fails fails the vector
RECURSIVE DecodeVec(_)
DecodeVec(a) ==
    IF a = <<>> THEN Ok(<<>>)
    ELSE LET e == DecodeException(Head(a))
         IN  IF ~ e.ok THEN e
             ELSE LET r == DecodeVec(Tail(a))
                  IN  IF ~ r.ok THEN r ELSE Ok(<<e.val>> \o r.val)

\* Option<Vec<Exception>>: a missing key and null are None
DecodeOptVec(b, key) ==
    IF key \notin DOMAIN b \/ b[key].t = "null" THEN Ok(None)
    ELSE IF b[key].t # "arr" THEN Err("invalid type")
    ELSE LET r == DecodeVec(b[key].v)
         IN  IF r.ok THEN Ok(Some(r.val)) ELSE r

\* Option<String>: a missing key and null are None
DecodeOptString(b, key) ==
    IF key \notin DOMAIN b \/ b[key].t = "null" THEN Ok(None)
    ELSE IF b[key].t # "str" THEN Err("invalid type")
    ELSE Ok(Some(b[key].v))

\* #[serde(flatten)] other keeping only the keys that start a known prefix
FlattenOtherDropping(b) == [k \in {} |-> JNull]

\* #[serde(flatten)] other: every key no named field took
FlattenOther(b) == [k \in DOMAIN b \ ModeledKeys |-> b[k]]

\* #[derive(Deserialize)] struct ErrProps.  serde reports the error met first
\* in the text; a bag has no order, so the list's error is reported first.
Decode(b) ==
    LET l  == DecodeOptVec(b, "$exception_list")
        t  == DecodeOptString(b, "$exception_type")
        m  == DecodeOptString(b, "$exception_message")
        s  == DecodeOptString(b, "$exception_stack_trace_raw")
        lv == DecodeOptString(b, "$exception_level")
    IN  IF ~ l.ok THEN l
        ELSE IF \E r \in {t, m, s, lv} : ~ r.ok THEN Err("invalid type")
        ELSE Ok([exception_list |-> l.val,
                 exception_type |-> t.val,
                 exception_message |-> m.val,
                 exception_stack_trace_raw |-> s.val,
                 exception_level |-> lv.val,
                 other |-> FlattenOther(b)])

(* ------------------------- serde: Serialize ----------------------------- *)

\* #[derive(Serialize)] struct Exception: mechanism has no skip attribute and
\* is written as null; module, thread_id and stacktrace are skipped when None
EncodeException(e) ==
    [k \in {"type", "value", "mechanism"} |->
        CASE k = "type" -> JStr(e.exception_type)
          [] k = "value" -> JStr(e.exception_message)
          [] OTHER -> JNull]

EncodeOptString(o) == IF o.some THEN JStr(o.v) ELSE JNull

EncodeOptVec(o) ==
    IF o.some THEN JArr([i \in 1..Len(o.v) |-> EncodeException(o.v[i])]) ELSE JNull

\* the named fields written: those with skip_serializing_if only when Some
EncodedFields(p) ==
    {"$exception_list", "$exception_level"}
    \cup {k \in {"$exception_type"} : p.exception_type.some}
    \cup {k \in {"$exception_message"} : p.exception_message.some}
    \cup {k \in {"$exception_stack_trace_raw"} : p.exception_stack_trace_raw.some}

\* #[derive(Serialize)] struct ErrProps: the named fields, then other flattened
Encode(p) ==
    [k \in EncodedFields(p) \cup DOMAIN p.other |->
        CASE k = "$exception_list" -> EncodeOptVec(p.exception_list)
          [] k = "$exception_type" -> EncodeOptString(p.exception_type)
          [] k = "$exception_message" -> EncodeOptString(p.exception_message)
          [] k = "$exception_stack_trace_raw" -> EncodeOptString(p.exception_stack_trace_raw)
          [] k = "$exception_level" -> EncodeOptString(p.exception_level)
          [] OTHER -> p.other[k]]

(* ----------------------------- state machine ---------------------------- *)

NoProps == <<>>

NoBag == [k \in {} |-> JNull]

FpIdle == excs = <<>> /\ n = 0 /\ h = <<>> /\ owner = <<>>

DecIdle == bag = NoBag /\ props = NoProps /\ err = "none" /\ out = NoBag /\ dpc = "idle"

\* the exceptions of longer lists: short strings over one byte, the stack
\* absent or Resolved with MaxFrames copies of one in-app resolved frame
ListFrame == [resolved |-> TRUE, in_app |-> TRUE, content |-> <<1>>]

ListStrs == SeqsUpTo({1}, MaxStrLen)

ListException ==
    [exception_type : ListStrs, exception_message : ListStrs,
     stack : {NoStack, Resolved([j \in 1..MaxFrames |-> ListFrame])}]

\* Sha512::new(), and the exception list of one event: one exception with
\* any stack, or a list of up to MaxExc exceptions of ListException
Init ==
    /\ excs \in {<<e>> : e \in Exception} \cup SeqsUpTo(ListException, MaxExc)
    /\ n = 0 /\ h = <<>> /\ owner = <<>>
    /\ DecIdle

\* Sha512::new(), and the exception list of one event: a list of up to MaxExc
\* exceptions of ListException, or one exception with any stack and a type and
\* message over one byte
InitList ==
    /\ excs \in SeqsUpTo(ListException, MaxExc)
               \cup {<<e>> : e \in [exception_type : ListStrs,
                                   exception_message : ListStrs,
                                   stack : OptStacktrace]}
    /\ n = 0 /\ h = <<>> /\ owner = <<>>
    /\ DecIdle

\* a property bag to decode
InitDecode ==
    /\ bag \in Bags
    /\ props = NoProps /\ err = "none" /\ out = NoBag /\ dpc = "input"
    /\ FpIdle

\* the next exception of the list is folded into the shared context
Include ==
    /\ n < Len(excs)
    /\ h' = include_in_fingerprint(excs[n + 1], h)
    /\ owner' = owner \o [k \in 1..(Len(h') - Len(h)) |-> n + 1]
    /\ n' = n + 1
    /\ UNCHANGED <<excs, decVars>>

\* serde_json::from_str::<ErrProps>
DecodeProps ==
    /\ dpc = "input"
    /\ LET r == Decode(bag)
       IN  /\ dpc' = IF r.ok THEN "ok" ELSE "err"
           /\ props' = IF r.ok THEN r.val ELSE NoProps
           /\ err' = r.err
    /\ UNCHANGED <<bag, out, fpVars>>

\* serde_json::to_value(&props)
EncodeProps ==
    /\ dpc = "ok"
    /\ out' = Encode(props)
    /\ dpc' = "encoded"
    /\ UNCHANGED <<bag, props, err, fpVars>>

Next == Include

NextDecode == DecodeProps \/ EncodeProps

Spec == Init /\ [][Next]_vars

SpecList == InitList /\ [][Next]_vars

SpecDecode == InitDecode /\ [][NextDecode]_vars

(* ------------------------- properties: fingerprint ---------------------- *)

Chunk(tag, idx, bytes) == [tag |-> tag, idx |-> idx, bytes |-> bytes]

\* the updates exception k made, in the order it made them
RECURSIVE OwnedFrom(_, _)
OwnedFrom(k, i) ==
    IF i > Len(h) THEN <<>>
    ELSE (IF owner[i] = k THEN <<h[i]>> ELSE <<>>) \o OwnedFrom(k, i + 1)

Contribution(k) == OwnedFrom(k, 1)

\* the frames exception k fed to the hash
FedFrames(k) == {c.idx : c \in {Contribution(k)[i] : i \in 3..Len(Contribution(k))}}

AnyInApp(fs) == \E j \in 1..Len(fs) : fs[j].in_app

AnyResolved(fs) == \E j \in 1..Len(fs) : fs[j].resolved

\* the frames section 4.3 of the specification selects
Selected(fs) ==
    IF ~ AnyInApp(fs) THEN {j \in 1..Len(fs) : j = 1}
    ELSE {j \in 1..Len(fs) : fs[j].in_app /\ (~ AnyResolved(fs) \/ fs[j].resolved)}

Folded == n = Len(excs)

\* C2: for a Resolved stack with no in-app frame, an exception feeds its type,
\* its message and then exactly the first frame, whatever that frame's resolved
\* flag; the content of any later frame does not change the stream.
C2_NoInAppFirstFrameOnly ==
    \A k \in 1..n :
        LET e == excs[k]
            fs == e.stack.frames
        IN  (e.stack.kind = "resolved" /\ ~ AnyInApp(fs)) =>
              /\ Contribution(k) =
                    <<Chunk("type", 0, e.exception_type),
                      Chunk("message", 0, e.exception_message)>>
                    \o (IF fs = <<>> THEN <<>> ELSE <<Chunk("frame", 1, fs[1].content)>>)
              /\ \A j \in 2..Len(fs) : \A b \in Bytes :
                    Stream(include_in_fingerprint(
                        [e EXCEPT !.stack.frames[j].content = <<b>>], <<>>))
                    = Stream(Contribution(k))

C2_Witness ==
    /\ n = 1 /\ Len(excs) = 1
    /\ excs[1].stack.kind = "resolved"
    /\ Len(excs[1].stack.frames) = 2
    /\ ~ AnyInApp(excs[1].stack.frames)
    /\ ~ excs[1].stack.frames[1].resolved
    /\ excs[1].stack.frames[2].resolved
    /\ excs[1].stack.frames[1].content # excs[1].stack.frames[2].content
    /\ FedFrames(1) = {1}

\* C3: for a Resolved stack with an in-app frame, frame j is fed to the hash
\* iff it is in-app and (no frame of the stack is resolved or j is resolved).
C3_InAppPreferResolved ==
    \A k \in 1..n :
        LET fs == excs[k].stack.frames
        IN  (excs[k].stack.kind = "resolved" /\ AnyInApp(fs)) =>
              \A j \in 1..Len(fs) :
                  (j \in FedFrames(k)) <=>
                  (fs[j].in_app /\ (~ AnyResolved(fs) \/ fs[j].resolved))

C3_Witness ==
    /\ n = 1 /\ Len(excs) = 1
    /\ excs[1].stack.kind = "resolved"
    /\ Len(excs[1].stack.frames) = 2
    /\ \A j \in 1..2 : excs[1].stack.frames[j].in_app
    /\ excs[1].stack.frames[1].resolved
    /\ ~ excs[1].stack.frames[2].resolved
    /\ FedFrames(1) = {1}

\* C4: with the stack absent or Raw, an exception feeds the hash its type
\* bytes, then its message bytes, and nothing else, whatever the Raw frames.
C4_RawOrAbsentTypeMessageOnly ==
    \A k \in 1..n :
        LET e == excs[k]
        IN  e.stack.kind \in {"none", "raw"} =>
              /\ Contribution(k) =
                    <<Chunk("type", 0, e.exception_type),
                      Chunk("message", 0, e.exception_message)>>
              /\ Stream(Contribution(k)) = e.exception_type \o e.exception_message

C4_Witness ==
    /\ n = 1 /\ Len(excs) = 1
    /\ excs[1].stack.kind = "raw"
    /\ Len(excs[1].stack.frames) = 2
    /\ excs[1].stack.frames[1].in_app
    /\ Len(h) = 2

\* C5: each exception feeds type, then message, then the selected frames in
\* list order (every selected frame once, none dropped, none out of order), and
\* in the shared context exception k's updates all precede those of k + 1.
C5_ContributionOrder ==
    /\ Len(owner) = Len(h)
    /\ \A i \in 1..Len(h) : \A j \in 1..Len(h) : i < j => owner[i] <= owner[j]
    /\ \A k \in 1..n :
        LET e == excs[k]
            fs == e.stack.frames
            c == Contribution(k)
        IN  /\ Len(c) >= 2
            /\ c[1] = Chunk("type", 0, e.exception_type)
            /\ c[2] = Chunk("message", 0, e.exception_message)
            /\ \A i \in 3..Len(c) :
                  /\ c[i].tag = "frame"
                  /\ c[i].idx \in 1..Len(fs)
                  /\ c[i].bytes = fs[c[i].idx].content
            /\ \A i \in 3..Len(c) : \A j \in 3..Len(c) : i < j => c[i].idx < c[j].idx
            /\ e.stack.kind = "resolved" => FedFrames(k) = Selected(fs)

C5_Witness ==
    /\ n = 2 /\ Len(excs) = 2
    /\ excs[1].stack.kind = "resolved"
    /\ Len(excs[1].stack.frames) = 2
    /\ excs[1].stack.frames[1] = excs[1].stack.frames[2]
    /\ FedFrames(1) = {1, 2}
    /\ owner = <<1, 1, 1, 1, 2, 2>>

\* C6: replacing the message of one exception by a different string, all else
\* fixed, changes the byte stream fed to the hash.
C6_MessageSensitive ==
    Folded =>
        \A k \in 1..Len(excs) : \A m \in Strs \ {excs[k].exception_message} :
            Stream(Fingerprint([excs EXCEPT ![k].exception_message = m], <<>>))
            # Stream(h)

C6_Witness ==
    /\ Folded /\ Len(excs) = 2
    /\ excs[1].exception_message = <<>>
    /\ excs[1].stack.kind = "resolved"
    /\ FedFrames(1) # {}
    /\ excs[2].exception_type # <<>>

\* what an exception list makes visible under the rules of section 4.3: per
\* exception its type, its message and the selected frames' contents, in order
RECURSIVE SelectedContents(_, _)
SelectedContents(fs, j) ==
    IF j > Len(fs) THEN <<>>
    ELSE (IF j \in Selected(fs) THEN <<fs[j].content>> ELSE <<>>)
         \o SelectedContents(fs, j + 1)

Visible(list) ==
    [k \in 1..Len(list) |->
        <<list[k].exception_type, list[k].exception_message,
          IF list[k].stack.kind = "resolved"
          THEN SelectedContents(list[k].stack.frames, 1) ELSE <<>>>>]

\* C7 as stated: any two exception lists that differ in what the rules make
\* visible (a contributing value, or the order) feed different byte streams.
C7_InjectiveOnVisible ==
    (Folded /\ n >= 1) =>
        \A other \in SeqsUpTo(ListException, MaxExc) :
            (Len(other) = Len(excs) /\ Visible(other) # Visible(excs)) =>
                Stream(Fingerprint(other, <<>>)) # Stream(h)

\* C7 amended: the fold is deterministic, and changing exactly one contributing
\* value (one exception's type, its message, or the content of one selected
\* frame), all else fixed, changes the byte stream fed to the hash.
C7_SingleChangeVisible ==
    Folded =>
        /\ h = Fingerprint(excs, <<>>)
        /\ \A k \in 1..Len(excs) :
            LET fs == excs[k].stack.frames
            IN  /\ \A s \in Strs \ {excs[k].exception_type} :
                      Stream(Fingerprint([excs EXCEPT ![k].exception_type = s], <<>>))
                      # Stream(h)
                /\ \A s \in Strs \ {excs[k].exception_message} :
                      Stream(Fingerprint([excs EXCEPT ![k].exception_message = s], <<>>))
                      # Stream(h)
                /\ excs[k].stack.kind = "resolved" =>
                      \A j \in Selected(fs) : \A b \in Bytes \ {fs[j].content[1]} :
                          Stream(Fingerprint(
                              [excs EXCEPT ![k].stack.frames[j].content = <<b>>], <<>>))
                          # Stream(h)

C7_Witness ==
    /\ Folded /\ Len(excs) = 1
    /\ excs[1].stack.kind = "resolved"
    /\ Len(excs[1].stack.frames) = 2
    /\ Selected(excs[1].stack.frames) = {1, 2}
    /\ FedFrames(1) = {1, 2}
    /\ excs[1].exception_type = <<>>
    /\ excs[1].exception_message # <<>>

\* C10: a Resolved stack with at least one frame feeds no frame at all iff it
\* has an in-app frame and a resolved frame but no frame that is both; the
\* stream is then the type bytes followed by the message bytes, as with no stack.
C10_NoFrameIffDisjointFlags ==
    \A k \in 1..n :
        LET e == excs[k]
            fs == e.stack.frames
        IN  (e.stack.kind = "resolved" /\ Len(fs) >= 1) =>
              /\ (FedFrames(k) = {}) <=>
                    (/\ AnyInApp(fs)
                     /\ AnyResolved(fs)
                     /\ ~ \E j \in 1..Len(fs) : fs[j].in_app /\ fs[j].resolved)
              /\ FedFrames(k) = {} =>
                    Stream(Contribution(k)) = e.exception_type \o e.exception_message

C10_Witness ==
    /\ n = 1 /\ Len(excs) = 1
    /\ excs[1].stack.kind = "resolved"
    /\ Len(excs[1].stack.frames) = 2
    /\ excs[1].stack.frames[1].in_app /\ ~ excs[1].stack.frames[1].resolved
    /\ ~ excs[1].stack.frames[2].in_app /\ excs[1].stack.frames[2].resolved
    /\ FedFrames(1) = {}
    /\ Len(h) = 2

(* --------------------------- properties: decode ------------------------- *)

Decoded == dpc \in {"ok", "err", "encoded"}

Succeeded == dpc \in {"ok", "encoded"}

ListIsArray == "$exception_list" \in DOMAIN bag /\ bag["$exception_list"].t = "arr"

Elems == bag["$exception_list"].v

CarriesBoth(el) == {"type", "value"} \subseteq DOMAIN el

CarriesBothAsStrings(el) ==
    CarriesBoth(el) /\ el["type"].t = "str" /\ el["value"].t = "str"

\* the decoded list mirrors the array: same length, same order
MirrorsArray ==
    /\ props.exception_list.some
    /\ Len(props.exception_list.v) = Len(Elems)
    /\ \A i \in 1..Len(Elems) :
          /\ props.exception_list.v[i].exception_type = Elems[i]["type"].v
          /\ props.exception_list.v[i].exception_message = Elems[i]["value"].v

C8_DecodedNonEmpty ==
    (Succeeded /\ props.exception_list.some) =>
        \A i \in 1..Len(props.exception_list.v) :
            /\ props.exception_list.v[i].exception_type # <<>>
            /\ props.exception_list.v[i].exception_message # <<>>

\* C8 amended: every successfully decoded Exception comes from an element that
\* carries type and value as strings, and holds exactly those strings, which
\* may be empty.
C8_DecodedPresent ==
    (Succeeded /\ props.exception_list.some) =>
        /\ ListIsArray
        /\ Len(props.exception_list.v) = Len(Elems)
        /\ \A i \in 1..Len(props.exception_list.v) :
              /\ CarriesBothAsStrings(Elems[i])
              /\ props.exception_list.v[i].exception_type = Elems[i]["type"].v
              /\ props.exception_list.v[i].exception_message = Elems[i]["value"].v

C8_Witness ==
    /\ dpc = "ok" /\ props.exception_list.some
    /\ Len(props.exception_list.v) = 1
    /\ props.exception_list.v[1].exception_type = <<>>
    /\ props.exception_list.v[1].exception_message = <<>>
    /\ Elems[1]["type"] = JStr(<<>>)

\* C9: every top-level key that is not a modeled field is in `other` after the
\* decode and in the re-encoded object, under the same name with the same
\* value; no such key is dropped, renamed or added.
C9_OtherRoundTrip ==
    /\ Succeeded =>
          /\ DOMAIN props.other = DOMAIN bag \ ModeledKeys
          /\ \A k \in DOMAIN bag \ ModeledKeys : props.other[k] = bag[k]
    /\ dpc = "encoded" =>
          /\ DOMAIN out \ ModeledKeys = DOMAIN bag \ ModeledKeys
          /\ \A k \in DOMAIN bag \ ModeledKeys : out[k] = bag[k]

C9_Witness ==
    /\ dpc = "encoded"
    /\ "$lib" \in DOMAIN bag /\ bag["$lib"] = JNum
    /\ "$lib" \in DOMAIN out /\ out["$lib"] = JNum
    /\ "$exception_list" \notin DOMAIN bag
    /\ "$exception_list" \in DOMAIN out
    /\ "$exception_type" \in DOMAIN out

====
